---- MODULE Spec2Model ----
(***************************************************************************)
(* Model of heredity.py: exact inference by enumeration over a pedigree.   *)
(*                                                                         *)
(* The program's numbers are Python floats built from two-decimal          *)
(* constants with +, -, * and one final division.  They are modelled as    *)
(* exact values: a decimal is a natural-number mantissa (unbounded, kept   *)
(* as a little-endian sequence of base-100 digits) with a count of         *)
(* base-100 fractional digits, and a number of the program is a quotient   *)
(* of two decimals.  Rounding of the binary floating-point format is not   *)
(* modelled.                                                               *)
(***************************************************************************)
EXTENDS Integers, Sequences, FiniteSets, TLC

(***************************************************************************)
(* Unbounded naturals: little-endian base-100 digit sequences, no leading  *)
(* (most significant) zero digit; zero is the empty sequence.              *)
(***************************************************************************)
RECURSIVE Trim(_)
Trim(a) ==
    IF a = <<>> THEN <<>>
    ELSE IF a[Len(a)] = 0 THEN Trim(SubSeq(a, 1, Len(a) - 1))
    ELSE a

RECURSIVE Big(_)
Big(k) == IF k = 0 THEN <<>> ELSE <<k % 100>> \o Big(k \div 100)

RECURSIVE BigAddC(_, _, _)
BigAddC(a, b, c) ==
    IF c = 0 /\ b = <<>> THEN a
    ELSE IF c = 0 /\ a = <<>> THEN b
    ELSE IF a = <<>> /\ b = <<>> THEN <<c>>
    ELSE LET x == IF a = <<>> THEN 0 ELSE Head(a)
             y == IF b = <<>> THEN 0 ELSE Head(b)
             s == x + y + c
         IN  <<s % 100>> \o BigAddC(IF a = <<>> THEN <<>> ELSE Tail(a),
                                    IF b = <<>> THEN <<>> ELSE Tail(b),
                                    s \div 100)

BigAdd(a, b) == BigAddC(a, b, 0)

\* a - b for a >= b
RECURSIVE BigSubB(_, _, _)
BigSubB(a, b, c) ==
    IF a = <<>> THEN <<>>
    ELSE LET y == IF b = <<>> THEN 0 ELSE Head(b)
             d == Head(a) - y - c
         IN  <<IF d < 0 THEN d + 100 ELSE d>>
                 \o BigSubB(Tail(a), IF b = <<>> THEN <<>> ELSE Tail(b),
                            IF d < 0 THEN 1 ELSE 0)

BigSub(a, b) == Trim(BigSubB(a, b, 0))

\* a * k + c for k, c below 100^3
RECURSIVE BigMulSmall(_, _, _)
BigMulSmall(a, k, c) ==
    IF a = <<>> THEN Big(c)
    ELSE LET s == Head(a) * k + c
         IN  <<s % 100>> \o BigMulSmall(Tail(a), k, s \div 100)

\* a * 100^k
RECURSIVE BigShift(_, _)
BigShift(a, k) ==
    IF a = <<>> \/ k = 0 THEN a ELSE BigShift(<<0>> \o a, k - 1)

\* the number of the first three digits of b, and b without them
BigLow(b) ==
    b[1] + (IF Len(b) > 1 THEN 100 * b[2] ELSE 0)
         + (IF Len(b) > 2 THEN 10000 * b[3] ELSE 0)
BigHigh(b) == IF Len(b) > 3 THEN SubSeq(b, 4, Len(b)) ELSE <<>>

\* three digits of b at a time
RECURSIVE BigMul(_, _)
BigMul(a, b) ==
    IF a = <<>> \/ b = <<>> THEN <<>>
    ELSE BigAdd(Trim(BigMulSmall(a, BigLow(b), 0)),
                BigShift(BigMul(a, BigHigh(b)), 3))

\* a <= b: more digits is larger, then the most significant difference decides
RECURSIVE BigLeq(_, _)
BigLeq(a, b) ==
    IF Len(a) # Len(b) THEN Len(a) < Len(b)
    ELSE IF a = <<>> THEN TRUE
    ELSE IF a[Len(a)] # b[Len(b)] THEN a[Len(a)] < b[Len(b)]
    ELSE BigLeq(SubSeq(a, 1, Len(a) - 1), SubSeq(b, 1, Len(b) - 1))

(***************************************************************************)
(* Decimals: [m |-> mantissa, e |-> fractional base-100 digits], the value *)
(* m / 100^e.  Every literal of the program is such a value.               *)
(***************************************************************************)
Dec(k) == [m |-> Big(k), e |-> 0]
Pct(c) == [m |-> Big(c), e |-> 1]

DecMax(i, j) == IF i < j THEN j ELSE i
DecAt(x, e) == BigShift(x.m, e - x.e)

DecAdd(x, y) ==
    LET e == DecMax(x.e, y.e)
    IN  [m |-> BigAdd(DecAt(x, e), DecAt(y, e)), e |-> e]

DecSub(x, y) ==
    LET e == DecMax(x.e, y.e)
    IN  [m |-> BigSub(DecAt(x, e), DecAt(y, e)), e |-> e]

DecMul(x, y) == [m |-> BigMul(x.m, y.m), e |-> x.e + y.e]

DecEq(x, y) ==
    LET e == DecMax(x.e, y.e) IN DecAt(x, e) = DecAt(y, e)

DecLeq(x, y) ==
    LET e == DecMax(x.e, y.e) IN BigLeq(DecAt(x, e), DecAt(y, e))

DecIsZero(x) == x.m = <<>>

(***************************************************************************)
(* Numbers of the program: quotients [n |-> decimal, d |-> decimal], d > 0 *)
(***************************************************************************)
Num(x) == [n |-> x, d |-> Dec(1)]
Zero == Num(Dec(0))
One == Num(Dec(1))

\* x + y, over the common denominator when there is one already
NumAdd(x, y) ==
    IF x.d = y.d THEN [n |-> DecAdd(x.n, y.n), d |-> x.d]
    ELSE [n |-> DecAdd(DecMul(x.n, y.d), DecMul(y.n, x.d)),
          d |-> DecMul(x.d, y.d)]

NumMul(x, y) == [n |-> DecMul(x.n, y.n), d |-> DecMul(x.d, y.d)]

\* x / y for y # 0
NumDiv(x, y) == [n |-> DecMul(x.n, y.d), d |-> DecMul(x.d, y.n)]

NumIsZero(x) == DecIsZero(x.n)
\* over the common denominator when there is one already
NumEq(x, y) ==
    IF x.d = y.d THEN DecEq(x.n, y.n)
    ELSE DecEq(DecMul(x.n, y.d), DecMul(y.n, x.d))
NumLeq(x, y) ==
    IF x.d = y.d THEN DecLeq(x.n, y.n)
    ELSE DecLeq(DecMul(x.n, y.d), DecMul(y.n, x.d))

(***************************************************************************)
(* PROBS: the probability tables                                           *)
(***************************************************************************)
\* mutant: the two entries of the trait table for no copy, swapped
PROBS_TraitSwapped ==
    [gene |-> (2 :> Pct(1) @@ 1 :> Pct(3) @@ 0 :> Pct(96)),
     trait |-> (2 :> (TRUE :> Pct(65) @@ FALSE :> Pct(35))
             @@ 1 :> (TRUE :> Pct(56) @@ FALSE :> Pct(44))
             @@ 0 :> (TRUE :> Pct(99) @@ FALSE :> Pct(1))),
     mutation |-> Pct(1)]

PROBS ==
    [gene |-> (2 :> Pct(1) @@ 1 :> Pct(3) @@ 0 :> Pct(96)),
     trait |-> (2 :> (TRUE :> Pct(65) @@ FALSE :> Pct(35))
             @@ 1 :> (TRUE :> Pct(56) @@ FALSE :> Pct(44))
             @@ 0 :> (TRUE :> Pct(1) @@ FALSE :> Pct(99))),
     mutation |-> Pct(1)]

(***************************************************************************)
(* The pedigree, as load_data returns it.  A blank mother or father is     *)
(* NoParent, a blank trait is NoTrait; a known trait is <<TRUE>> or        *)
(* <<FALSE>>.                                                              *)
(***************************************************************************)
MaxPeople == 3

Universe == <<"Lily", "James", "Harry", "Molly", "Arthur", "Fleur">>
Stranger == "Stranger"
NoParent == ""
NoTrait == <<>>

Names(n) == {Universe[i] : i \in 1..n}

\* who the parents are, per person: everyone a founder, or Harry with the
\* parents given
Parents(P, mother, father) ==
    [person \in P |-> IF person = "Harry" THEN <<mother, father>>
                      ELSE <<NoParent, NoParent>>]

Shapes(P) ==
    {Parents(P, NoParent, NoParent)} \cup
    (IF {"Lily", "James", "Harry"} \subseteq P
     THEN {Parents(P, "Lily", "James"),
           Parents(P, "Lily", NoParent),
           Parents(P, NoParent, "James"),
           Parents(P, "Lily", Stranger),
           Parents(P, Stranger, "James")}
     ELSE {})

Pedigrees ==
    UNION {
        {[person \in Names(n) |->
            [name |-> person,
             mother |-> shape[person][1],
             father |-> shape[person][2],
             trait |-> evidence[person]]] :
           shape \in Shapes(Names(n)),
           evidence \in [Names(n) -> {NoTrait, <<TRUE>>, <<FALSE>>}]} :
        n \in 1..MaxPeople}

\* the rows of the file in order: the iteration order of the people dict
PeopleList(dict) == SelectSeq(Universe, LAMBDA x : x \in DOMAIN dict)

RECURSIVE Reverse(_)
Reverse(s) == IF s = <<>> THEN <<>> ELSE Reverse(Tail(s)) \o <<Head(s)>>

\* the iteration orders of the set of names that are modelled
Orders(dict) == {PeopleList(dict), Reverse(PeopleList(dict))}

VARIABLES
    people,         \* the pedigree
    order,          \* the iteration order of a set of names
    probabilities,  \* person -> field -> value -> number
    pc,             \* "loop", "done" or "error"
    trait_sets,     \* the lists the three nested loops of main run over
    one_sets,
    two_sets,
    hi, gi, ti,     \* and the position of each loop in its list
    p,              \* the last joint probability computed
    before,         \* history: probabilities before the last call of update
                    \* or normalize
    visitedH,       \* history: the have_trait sets that passed the filter
    visitedG        \* history: the <<one_gene, two_genes>> pairs accumulated
                    \* for the last have_trait set that passed

vars == <<people, order, probabilities, pc, trait_sets, one_sets, two_sets,
          hi, gi, ti, p, before, visitedH, visitedG>>

(***************************************************************************)
(* powerset: itertools.combinations for r = 0 .. len(s), chained           *)
(***************************************************************************)
\* list(s)
List(s) == SelectSeq(order, LAMBDA x : x \in s)

RECURSIVE PrependAll(_, _)
PrependAll(x, ss) ==
    IF ss = <<>> THEN <<>> ELSE <<<<x>> \o Head(ss)>> \o PrependAll(x, Tail(ss))

RECURSIVE combinations(_, _)
combinations(s, r) ==
    IF r = 0 THEN << <<>> >>
    ELSE IF Len(s) < r THEN <<>>
    ELSE PrependAll(Head(s), combinations(Tail(s), r - 1))
             \o combinations(Tail(s), r)

Range(s) == {s[i] : i \in 1..Len(s)}

RECURSIVE chain(_, _)
chain(s, r) ==
    IF r > Len(s) THEN <<>> ELSE combinations(s, r) \o chain(s, r + 1)

\* mutant: r stops at len(s) - 1, so the whole set is missing
powerset_WithoutWhole(s) ==
    LET Sets(all) == [i \in 1..(Len(all) - 1) |-> Range(all[i])]
    IN  CHOOSE sets \in {Sets(all) : all \in {chain(List(s), 0)}} : TRUE

\* the chain is built once and then turned into sets
powerset(s) ==
    LET Sets(all) == [i \in 1..Len(all) |-> Range(all[i])]
    IN  CHOOSE sets \in {Sets(all) : all \in {chain(List(s), 0)}} : TRUE

(***************************************************************************)
(* genes_dict                                                              *)
(***************************************************************************)
genes_dict(dict, one, two) ==
    [person \in DOMAIN dict |->
        IF person \in one THEN 1
        ELSE IF person \in two THEN 2
        ELSE 0]

(***************************************************************************)
(* joint_probability                                                       *)
(***************************************************************************)
HasParents(dict, person) ==
    dict[person].mother # NoParent /\ dict[person].father # NoParent

\* the factor one parent contributes when the child has two copies
FromParentTwo(g) ==
    IF g = 2 THEN DecSub(Dec(1), PROBS.mutation)
    ELSE IF g = 1 THEN Pct(50)
    ELSE PROBS.mutation

\* the factor one parent contributes when the child has no copy
FromParentZero(g) ==
    IF g = 2 THEN PROBS.mutation
    ELSE IF g = 1 THEN Pct(50)
    ELSE DecSub(Dec(1), PROBS.mutation)

\* the child has one copy; gm, gf are the mother's and the father's count
FromParentsOne(gm, gf) ==
    LET sum == gm + gf
        mutation == PROBS.mutation
    IN  IF sum = 4
        THEN DecMul(DecMul(Dec(2), mutation), DecSub(Dec(1), mutation))
        ELSE IF sum = 3 THEN Pct(50)
        ELSE IF sum = 2
        THEN IF gm = 1 THEN Pct(50)
             ELSE DecAdd(DecSub(Dec(1), DecMul(Dec(2), mutation)),
                         DecMul(Dec(2), DecMul(mutation, mutation)))
        ELSE IF sum = 1 THEN Pct(50)
        ELSE Dec(1)

\* what prob is multiplied by before the trait, for a person with parents
Inheritance(g, gm, gf) ==
    IF g = 2 THEN DecMul(FromParentTwo(gm), FromParentTwo(gf))
    ELSE IF g = 1 THEN FromParentsOne(gm, gf)
    ELSE DecMul(FromParentZero(gm), FromParentZero(gf))

PersonProb(dict, genes, person, has_trait) ==
    LET inherit ==
            IF HasParents(dict, person)
            THEN Inheritance(genes[person], genes[dict[person].mother],
                             genes[dict[person].father])
            ELSE PROBS.gene[genes[person]]
    IN  DecMul(DecMul(Dec(1), inherit),
               PROBS.trait[genes[person]][(person \in has_trait)])

\* genes[parent] for a parent that is no key of genes: KeyError
RaisesKeyError(dict) ==
    \E person \in DOMAIN dict :
        /\ HasParents(dict, person)
        /\ \/ dict[person].mother \notin DOMAIN dict
           \/ dict[person].father \notin DOMAIN dict

\* joint = 1; joint *= prob for each prob of prob_list
RECURSIVE Product(_, _)
Product(prob_list, joint) ==
    IF prob_list = <<>> THEN joint
    ELSE Product(Tail(prob_list), DecMul(joint, Head(prob_list)))

RECURSIVE ProbList(_, _, _, _)
ProbList(dict, genes, list, has_trait) ==
    IF list = <<>> THEN <<>>
    ELSE <<PersonProb(dict, genes, Head(list), has_trait)>>
             \o ProbList(dict, genes, Tail(list), has_trait)

joint_probability(dict, one, two, has_trait) ==
    LET genes == genes_dict(dict, one, two)
        prob_list == ProbList(dict, genes, PeopleList(dict), has_trait)
    IN  Product(prob_list, Dec(1))

(***************************************************************************)
(* update                                                                  *)
(***************************************************************************)
\* mutant: = for +=
update_Overwrites(probs, one, two, has_trait, joint) ==
    LET genes == genes_dict(probs, one, two)
    IN  [person \in DOMAIN probs |->
            [gene |-> [probs[person].gene EXCEPT ![genes[person]] = Num(joint)],
             trait |-> [probs[person].trait EXCEPT
                          ![(person \in has_trait)] = Num(joint)]]]

update(probs, one, two, has_trait, joint) ==
    LET genes == genes_dict(probs, one, two)
    IN  [person \in DOMAIN probs |->
            [gene |-> [probs[person].gene EXCEPT
                          ![genes[person]] = NumAdd(@, Num(joint))],
             trait |-> [probs[person].trait EXCEPT
                          ![(person \in has_trait)] = NumAdd(@, Num(joint))]]]

(***************************************************************************)
(* normalize                                                               *)
(***************************************************************************)
\* the values of a field in the order of its dict
Values(dist) == IF dist = "gene" THEN <<2, 1, 0>> ELSE <<TRUE, FALSE>>

RECURSIVE SumOver(_, _, _)
SumOver(d, values, sum) ==
    IF values = <<>> THEN sum
    ELSE SumOver(d, Tail(values), NumAdd(sum, d[Head(values)]))

\* mutant: sum = for sum +=, which leaves the last value of the field
Total_LastOnly(probs, person, dist) ==
    LET values == Values(dist)
    IN  probs[person][dist][values[Len(values)]]

Total(probs, person, dist) == SumOver(probs[person][dist], Values(dist), Zero)

\* the <<person, dist>> pairs in the order normalize visits them
Fields(probs) ==
    LET list == PeopleList(probs)
    IN  [i \in 1..(2 * Len(list)) |->
            <<list[(i + 1) \div 2], IF i % 2 = 1 THEN "gene" ELSE "trait">>]

\* ok is FALSE when a sum is zero: ZeroDivisionError, with the fields before
\* it already divided
RECURSIVE normalizeFrom(_, _)
normalizeFrom(probs, todo) ==
    IF todo = <<>> THEN [ok |-> TRUE, probabilities |-> probs]
    ELSE LET person == Head(todo)[1]
             dist == Head(todo)[2]
             sum == Total(probs, person, dist)
         IN  IF NumIsZero(sum) THEN [ok |-> FALSE, probabilities |-> probs]
             ELSE normalizeFrom(
                      [probs EXCEPT ![person][dist] =
                          [value \in DOMAIN @ |-> NumDiv(@[value], sum)]],
                      Tail(todo))

normalize(probs) == normalizeFrom(probs, Fields(probs))

(***************************************************************************)
(* main                                                                    *)
(***************************************************************************)
names == DOMAIN people

\* mutant: == for !=
fails_evidence_Inverted(dict, has_trait) ==
    \E person \in DOMAIN dict :
        /\ dict[person].trait # NoTrait
        /\ dict[person].trait[1] = (person \in has_trait)

\* mutant: no test for None, which differs from True and from False
fails_evidence_NoneFails(dict, has_trait) ==
    \E person \in DOMAIN dict :
        IF dict[person].trait = NoTrait THEN TRUE
        ELSE dict[person].trait[1] # (person \in has_trait)

fails_evidence(dict, has_trait) ==
    \E person \in DOMAIN dict :
        /\ dict[person].trait # NoTrait
        /\ dict[person].trait[1] # (person \in has_trait)

\* the loop variables
have_trait == trait_sets[hi]
one_gene == one_sets[gi]
two_genes == two_sets[ti]

Init ==
    /\ people \in Pedigrees
    /\ order \in Orders(people)
    /\ probabilities =
           [person \in DOMAIN people |->
               [gene |-> (2 :> Zero @@ 1 :> Zero @@ 0 :> Zero),
                trait |-> (TRUE :> Zero @@ FALSE :> Zero)]]
    /\ pc = "loop"
    /\ trait_sets = powerset(names)
    /\ one_sets = powerset(names)
    /\ two_sets = powerset(names \ one_sets[1])
    /\ hi = 1 /\ gi = 1 /\ ti = 1
    /\ p = Dec(0)
    /\ before = probabilities
    /\ visitedH = <<>>
    /\ visitedG = <<>>

\* the outer loop moves on; the lists of the inner loops are the ones they
\* will run over if the next have_trait set passes the filter
NextTrait ==
    /\ hi' = hi + 1
    /\ gi' = 1
    /\ ti' = 1
    /\ one_sets' = powerset(names)
    /\ two_sets' = powerset(names \ one_sets'[1])
    /\ UNCHANGED trait_sets

\* a have_trait set that contradicts the known traits: continue
Skip ==
    /\ pc = "loop"
    /\ hi <= Len(trait_sets)
    /\ fails_evidence(people, have_trait)
    /\ NextTrait
    /\ UNCHANGED <<people, order, probabilities, pc, p, before,
                   visitedH, visitedG>>

\* one pass of the innermost loop body, and the step of the loops after it
Accumulate ==
    /\ pc = "loop"
    /\ hi <= Len(trait_sets) /\ gi <= Len(one_sets) /\ ti <= Len(two_sets)
    /\ ~fails_evidence(people, have_trait)
    /\ ~RaisesKeyError(people)
    /\ p' = joint_probability(people, one_gene, two_genes, have_trait)
    /\ probabilities' =
           update(probabilities, one_gene, two_genes, have_trait, p')
    /\ before' = probabilities
    /\ visitedH' = IF gi = 1 /\ ti = 1 THEN Append(visitedH, have_trait)
                   ELSE visitedH
    /\ visitedG' = IF gi = 1 /\ ti = 1 THEN <<<<one_gene, two_genes>>>>
                   ELSE Append(visitedG, <<one_gene, two_genes>>)
    /\ IF ti < Len(two_sets)
       THEN /\ ti' = ti + 1
            /\ UNCHANGED <<hi, gi, trait_sets, one_sets, two_sets>>
       ELSE IF gi < Len(one_sets)
       THEN /\ gi' = gi + 1
            /\ ti' = 1
            /\ two_sets' = powerset(names \ one_sets[gi + 1])
            /\ UNCHANGED <<hi, trait_sets, one_sets>>
       ELSE NextTrait
    /\ UNCHANGED <<people, order, pc>>

\* joint_probability raises: the run ends with the exception
Raise ==
    /\ pc = "loop"
    /\ hi <= Len(trait_sets) /\ gi <= Len(one_sets) /\ ti <= Len(two_sets)
    /\ ~fails_evidence(people, have_trait)
    /\ RaisesKeyError(people)
    /\ pc' = "error"
    /\ UNCHANGED <<people, order, probabilities, trait_sets, one_sets,
                   two_sets, hi, gi, ti, p, before, visitedH, visitedG>>

\* the loops are exhausted
Normalize ==
    /\ pc = "loop"
    /\ hi > Len(trait_sets)
    /\ LET r == normalize(probabilities)
       IN  /\ probabilities' = r.probabilities
           /\ pc' = IF r.ok THEN "done" ELSE "error"
    /\ before' = probabilities
    /\ UNCHANGED <<people, order, trait_sets, one_sets, two_sets,
                   hi, gi, ti, p, visitedH, visitedG>>

Next == Skip \/ Accumulate \/ Raise \/ Normalize

Spec == Init /\ [][Next]_vars

(***************************************************************************)
(* Vocabulary of the properties                                            *)
(***************************************************************************)
\* both parents or neither, and the parents are people of the pedigree
Valid(dict) ==
    \A person \in DOMAIN dict :
        /\ (dict[person].mother = NoParent) <=> (dict[person].father = NoParent)
        /\ dict[person].mother \in DOMAIN dict \cup {NoParent}
        /\ dict[person].father \in DOMAIN dict \cup {NoParent}

Founder(dict, person) ==
    dict[person].mother = NoParent /\ dict[person].father = NoParent

Observed(dict, person) == dict[person].trait # NoTrait

\* H says of every person with a known trait what is known
Agrees(dict, H) ==
    \A person \in DOMAIN dict :
        Observed(dict, person) => ((person \in H) <=> dict[person].trait[1])

\* the have_trait sets that agree with every known trait
Consistent(dict) == {H \in SUBSET DOMAIN dict : Agrees(dict, H)}

\* the ways to give every person 0, 1 or 2 copies
Partitions(P) ==
    {<<G1, G2>> \in (SUBSET P) \X (SUBSET P) : G1 \cap G2 = {}}

\* the enumeration is over and normalize has not run yet
Exhausted == pc = "loop" /\ hi > Len(trait_sets)

\* a pass of the loop body is about to run on the loop variables
AtWorld ==
    /\ pc = "loop"
    /\ hi <= Len(trait_sets) /\ gi <= Len(one_sets) /\ ti <= Len(two_sets)
    /\ ~fails_evidence(people, have_trait)

\* update has been called, and normalize has not: the last call of update
\* had the last sets of the two histories
Accumulated == pc = "loop" /\ visitedG # <<>>
LastTrait == visitedH[Len(visitedH)]
LastOne == visitedG[Len(visitedG)][1]
LastTwo == visitedG[Len(visitedG)][2]

Hundredths(c) == Num(Pct(c))

\* what the buckets of a field add up to
BucketSum(buckets, dist) ==
    IF dist = "gene"
    THEN NumAdd(NumAdd(buckets[0], buckets[1]), buckets[2])
    ELSE NumAdd(buckets[FALSE], buckets[TRUE])

(***************************************************************************)
(* C1: for a person with two parents, the inheritance factor of every      *)
(* (child, mother, father) combination of gene counts is the closed form   *)
(* of two independent transmissions: p_m * p_f for two copies,             *)
(* (1 - p_m) * (1 - p_f) for none, p_m * (1 - p_f) + (1 - p_m) * p_f for   *)
(* one, with p = 0.01, 0.5, 0.99 for a parent with 0, 1, 2 copies.         *)
(***************************************************************************)
p_transmit(g) == IF g = 0 THEN Pct(1) ELSE IF g = 1 THEN Pct(50) ELSE Pct(99)

ClosedForm(g, gm, gf) ==
    LET pm == p_transmit(gm)
        pf == p_transmit(gf)
        qm == DecSub(Dec(1), pm)
        qf == DecSub(Dec(1), pf)
    IN  IF g = 2 THEN DecMul(pm, pf)
        ELSE IF g = 0 THEN DecMul(qm, qf)
        ELSE DecAdd(DecMul(pm, qf), DecMul(qm, pf))

C1_InheritanceIsClosedForm ==
    (AtWorld /\ ~RaisesKeyError(people)) =>
        LET genes == genes_dict(people, one_gene, two_genes)
        IN  \A person \in names :
                HasParents(people, person) =>
                    DecEq(Inheritance(genes[person],
                                      genes[people[person].mother],
                                      genes[people[person].father]),
                          ClosedForm(genes[person],
                                     genes[people[person].mother],
                                     genes[people[person].father]))

(***************************************************************************)
(* C2: for a valid pedigree, the joint probabilities of all worlds (no     *)
(* known trait, so no have_trait set is filtered out) sum to exactly 1.    *)
(* Every world adds its joint probability to one trait bucket of each      *)
(* person, so the sum is the total of any person's trait buckets when the  *)
(* enumeration is over.                                                    *)
(***************************************************************************)
C2_WorldsSumToOne ==
    (Exhausted /\ Valid(people)
        /\ \A person \in names : ~Observed(people, person)) =>
        \A person \in names :
            NumEq(BucketSum(probabilities[person].trait, "trait"), One)

(***************************************************************************)
(* C3: Harry (mother Lily, father James, trait unknown), Lily (founder,    *)
(* no trait), James (founder, trait unknown): the normalized gene          *)
(* distribution of James is the prior, 0.96 / 0.03 / 0.01.                 *)
(***************************************************************************)
HarryFamily ==
    "Lily" :> [name |-> "Lily", mother |-> NoParent, father |-> NoParent,
               trait |-> <<FALSE>>]
    @@ "James" :> [name |-> "James", mother |-> NoParent, father |-> NoParent,
                   trait |-> NoTrait]
    @@ "Harry" :> [name |-> "Harry", mother |-> "Lily", father |-> "James",
                   trait |-> NoTrait]

C3_JamesKeepsPrior ==
    (pc = "done" /\ people = HarryFamily) =>
        \A g \in 0..2 :
            NumEq(probabilities["James"].gene[g], Num(PROBS.gene[g]))

(***************************************************************************)
(* C4: a person whose trait is known is never accumulated in a world that  *)
(* says otherwise: every have_trait set that passed agrees with the known  *)
(* trait, the bucket of the other value stays 0, and after normalize the   *)
(* bucket of the known value is exactly 1.                                 *)
(***************************************************************************)
C4_EvidencePinsTrait ==
    \A person \in names :
        Observed(people, person) =>
            LET known == people[person].trait[1]
            IN  /\ \A i \in 1..Len(visitedH) :
                       (person \in visitedH[i]) <=> known
                /\ NumIsZero(probabilities[person].trait[~known])
                /\ pc = "done" =>
                       NumEq(probabilities[person].trait[known], One)

C4_Witness ==
    /\ pc = "done"
    /\ people["Lily"].trait = <<FALSE>>
    /\ \E person \in names : people[person].trait = <<TRUE>>
    /\ \E person \in names : ~Observed(people, person)
    /\ NumEq(probabilities["Lily"].trait[FALSE], One)

(***************************************************************************)
(* C5: a pedigree with a person who has one parent only, or a parent that  *)
(* is no person of the pedigree, ends in an error for every world: no      *)
(* world of it is ever scored and the run never completes.                 *)
(***************************************************************************)
C5_InvalidPedigreeFails ==
    ~Valid(people) => (visitedH = <<>> /\ pc # "done")

(***************************************************************************)
(* C6: normalize makes the buckets of every field with a non-zero sum add  *)
(* up to exactly 1 and keeps the ratio of every two buckets:               *)
(* new[a] * old[b] = new[b] * old[a].                                      *)
(***************************************************************************)
Normalized(old, new, dist) ==
    /\ NumEq(BucketSum(new, dist), One)
    /\ \A a, b \in DOMAIN old :
           NumEq(NumMul(new[a], old[b]), NumMul(new[b], old[a]))

C6_NormalizeSumsToOne ==
    pc = "done" =>
        \A person \in names : \A dist \in {"gene", "trait"} :
            ~NumIsZero(BucketSum(before[person][dist], dist)) =>
                Normalized(before[person][dist],
                           probabilities[person][dist], dist)

C6_Witness ==
    /\ pc = "done"
    /\ Valid(people)
    /\ "Harry" \in names /\ HasParents(people, "Harry")
    /\ ~NumIsZero(probabilities["Harry"].gene[2])
    /\ ~NumEq(probabilities["Harry"].gene[1], probabilities["Harry"].gene[0])

(***************************************************************************)
(* C7: every world (H, G1, G2) with H agreeing with the known traits and   *)
(* G1, G2 disjoint is accumulated exactly once: the have_trait sets that   *)
(* passed are distinct and, at the end, are all the consistent ones; for   *)
(* each of them the pairs accumulated are distinct, disjoint, and when its *)
(* inner loops end are all 3^n partitions.                                 *)
(***************************************************************************)
C7_EachWorldOnce ==
    /\ Cardinality(Range(visitedH)) = Len(visitedH)
    /\ \A i \in 1..Len(visitedH) :
           visitedH[i] \subseteq names /\ Agrees(people, visitedH[i])
    /\ Cardinality(Range(visitedG)) = Len(visitedG)
    /\ \A i \in 1..Len(visitedG) :
           /\ visitedG[i][1] \cup visitedG[i][2] \subseteq names
           /\ visitedG[i][1] \cap visitedG[i][2] = {}
    /\ (pc = "loop" /\ gi = 1 /\ ti = 1 /\ visitedH # <<>>) =>
           /\ Range(visitedG) = Partitions(names)
           /\ Len(visitedG) = 3 ^ Cardinality(names)
    /\ (hi > Len(trait_sets) /\ ~RaisesKeyError(people)) =>
           Range(visitedH) = Consistent(people)

C7_Witness ==
    /\ Exhausted
    /\ Cardinality(names) = MaxPeople
    /\ Len(visitedH) = 2
    /\ Len(visitedG) = 3 ^ MaxPeople

(***************************************************************************)
(* C8: one call of update with disjoint one_gene and two_genes adds p, for *)
(* every person, to the gene bucket of the person's count and to the trait *)
(* bucket of the person's membership in have_trait, on top of what the     *)
(* bucket held, and leaves every other bucket as it was.                   *)
(***************************************************************************)
C8_UpdateAddsToOneBucket ==
    Accumulated =>
        /\ LastOne \cap LastTwo = {}
        /\ \A person \in names :
               LET count == IF person \in LastOne THEN 1
                            ELSE IF person \in LastTwo THEN 2 ELSE 0
                   old == before[person]
                   new == probabilities[person]
               IN  /\ \A g \in 0..2 :
                          IF g = count
                          THEN \E sum \in {NumAdd(old.gene[g], Num(p))} :
                                   NumEq(new.gene[g], sum)
                          ELSE new.gene[g] = old.gene[g]
                   /\ \A t \in BOOLEAN :
                          IF t = (person \in LastTrait)
                          THEN \E sum \in {NumAdd(old.trait[t], Num(p))} :
                                   NumEq(new.trait[t], sum)
                          ELSE new.trait[t] = old.trait[t]

C8_Witness ==
    /\ pc = "loop"
    /\ Len(visitedG) > 1
    /\ \E person \in names :
           /\ ~NumIsZero(probabilities[person].gene[2])
           /\ ~NumIsZero(probabilities[person].gene[1])
           /\ ~NumIsZero(probabilities[person].trait[TRUE])
           /\ ~NumEq(probabilities[person].gene[1], Num(p))

(***************************************************************************)
(* C9: for a person whose trait is known to be present, founder or child   *)
(* of two founders, the normalized probability of two copies is at least   *)
(* the prior probability of two copies, 0.01.                              *)
(***************************************************************************)
C9_TraitRaisesTwoCopies ==
    (pc = "done" /\ Valid(people)) =>
        \A person \in names :
            people[person].trait = <<TRUE>> =>
                NumLeq(Hundredths(1), probabilities[person].gene[2])

\* amended: the same for founders only
C9_TraitRaisesTwoCopiesOfFounder ==
    (pc = "done" /\ Valid(people)) =>
        \A person \in names :
            (people[person].trait = <<TRUE>> /\ Founder(people, person)) =>
                NumLeq(Hundredths(1), probabilities[person].gene[2])

C9_Witness ==
    /\ pc = "done"
    /\ Valid(people)
    /\ "Harry" \in names /\ HasParents(people, "Harry")
    /\ people["James"].trait = <<TRUE>>
    /\ people["Harry"].trait = <<FALSE>>
    /\ NumLeq(Hundredths(1), probabilities["James"].gene[2])

(***************************************************************************)
(* C10: for a valid pedigree and any known traits, some have_trait set     *)
(* passes the filter and every joint probability accumulated is positive,  *)
(* so when normalize runs the gene buckets and the trait buckets of every  *)
(* person have the same positive sum, and normalize divides by no zero.    *)
(***************************************************************************)
C10_NoDivisionByZero ==
    Valid(people) =>
        /\ pc # "error"
        /\ visitedH # <<>> => ~DecIsZero(p)
        /\ Exhausted =>
               /\ visitedH # <<>>
               /\ \A person \in names :
                      LET genes == BucketSum(probabilities[person].gene, "gene")
                          traits == BucketSum(probabilities[person].trait, "trait")
                      IN  /\ ~NumIsZero(genes)
                          /\ ~NumIsZero(traits)
                          /\ NumEq(genes, traits)

C10_Witness ==
    /\ Exhausted
    /\ Valid(people)
    /\ "Harry" \in names /\ HasParents(people, "Harry")
    /\ \A person \in names : Observed(people, person)
    /\ ~NumIsZero(BucketSum(probabilities["Harry"].gene, "gene"))

====
